---------------------------- MODULE Spec2Model ----------------------------
(***************************************************************************)
(* The user query/mutation hooks of src/src/queries/userQuery.ts, driven   *)
(* by the Users view of src/src/components/users/index.tsx, over the       *)
(* request cache the hooks delegate to (useQuery / useMutation /           *)
(* invalidateQueries) and a REST backend holding the users.                *)
(***************************************************************************)
EXTENDS Integers, Sequences, FiniteSets, TLC

\* ------------------------------------------------------------------ bounds
\* Mutations the view starts in one run.
MaxMutations == 2
\* Components on screen at a time that use a read hook, the Users view aside.
MaxObservers == 2

\* --------------------------------------------------------- program values
\* const [pageNumber, setPageNumber] = useState(1)
InitialPage == 1
\* const [pageSize] = useState(10)
PageSize == 10

Ids == {"1", "2"}
Names == {"A", "B"}
Status == {"active", "inactive", "pending"}
\* What the model's user types into the forms and picks in the selects.
FormNames == {"B"}
FormStatus == {"active", "inactive"}

\* An optional value: <<>> is undefined, <<v>> is v.
Undefined == <<>>
Some(v) == <<v>>
NoData == <<>>

User == [id : Ids, name : Names, status : Status]

\* The backend's record of one user, or none (never created, or deleted).
NoUser == [id |-> "", name |-> "", status |-> ""]

\* ------------------------------------------------------------------- text
\* A string is the sequence of the pieces it was put together from; a
\* template literal or + is \o. The pieces are never split or merged.
Join(texts, sep) ==
    LET J[i \in 0..Len(texts)] ==
            IF i = 0 THEN <<>>
            ELSE IF i = 1 THEN texts[1]
            ELSE J[i - 1] \o <<sep>> \o texts[i]
    IN  J[Len(texts)]

Contains(text, piece) == \E i \in 1..Len(text) : text[i] = piece

\* Number.prototype.toString, on the numbers of the model.
NumStr(n) ==
    CASE n = 0 -> "0" [] n = 1 -> "1" [] n = 2 -> "2" [] n = 10 -> "10"
      [] n = 200 -> "200" [] n = 204 -> "204" [] n = 299 -> "299"
      [] n = 300 -> "300" [] n = 404 -> "404" [] n = 500 -> "500"

\* `x?.toString() || fallback` on an optional number.
ToStringOr(x, fallback) ==
    IF x = Undefined THEN fallback
    ELSE IF NumStr(x[1]) = "" THEN fallback
    ELSE NumStr(x[1])

\* ---------------------------------------------------------------- objects
\* An object literal is the sequence of its properties <<name, value>> in
\* the order written, each value optional (undefined or a value); an
\* object is a literal evaluated: it has an identity of its own.
Obj(ref, entries) == [ref |-> ref, entries |-> entries]

\* The properties whose values are numbers at run time (PagedUserParams).
NumberFields == {"PageNumber", "PageSize"}

\* Object.keys(o).sort() over the property names of the model.
SortedNames == <<"PageNumber", "PageSize", "SearchTerm">>

HasOwn(entries, name) == \E i \in 1..Len(entries) : entries[i][1] = name
Get(entries, name) ==
    IF HasOwn(entries, name)
        THEN entries[CHOOSE i \in 1..Len(entries) : entries[i][1] = name][2]
        ELSE Undefined

\* The properties that hold a value, as a record.
Defined(entries) ==
    [n \in {entries[i][1] : i \in {j \in 1..Len(entries) : entries[j][2] # Undefined}}
        |-> Get(entries, n)[1]]

\* { PageNumber: pageNumber, PageSize: pageSize, SearchTerm: searchTerm || undefined }
UsersParams(pageNumber, pageSize, term) ==
    <<<<"PageNumber", Some(pageNumber)>>, <<"PageSize", Some(pageSize)>>,
      <<"SearchTerm", IF term = "" THEN Undefined ELSE Some(term)>>>>

\* The parameters the Users view gives useUsers, as the query cache tells
\* them apart: by the properties that hold a value.
ViewParams(term) == Defined(UsersParams(InitialPage, PageSize, term))

\* ------------------------------------------------------- Cache-Key Registry
QK_users == <<"users">>
QK_user(id) == <<"users", id>>
QK_usersPaged(params) == <<"users", "paged", params>>
QK_searchUsers(searchTerm, pageNumber, pageSize) ==
    <<"users", "search", searchTerm, pageNumber, pageSize>>
QK_usersByRole(roleId, pageNumber, pageSize) ==
    <<"users", "role", roleId, pageNumber, pageSize>>
QK_activeUsers(pageNumber, pageSize) == <<"users", "active", pageNumber, pageSize>>
\* The key useLoginMutation writes the session's user under.
QK_session == <<"user">>

\* ------------------------------------------------------------- read hooks
\* What a read hook hands to useQuery: its key and whether it is enabled.
useUsers(params) ==
    [hook |-> "useUsers", queryKey |-> QK_usersPaged(params), enabled |-> TRUE]
\* Faulty variant of useUser: the enabled option is left out.
useUserAlwaysEnabled(id) ==
    [hook |-> "useUser", queryKey |-> QK_user(id), enabled |-> TRUE]

useUser(id) ==
    [hook |-> "useUser", queryKey |-> QK_user(id), enabled |-> id # ""]
useSearchUsers(searchTerm, pageNumber, pageSize) ==
    [hook |-> "useSearchUsers",
     queryKey |-> QK_searchUsers(searchTerm, pageNumber, pageSize),
     enabled |-> searchTerm # ""]
useUsersByRole(roleId, pageNumber, pageSize) ==
    [hook |-> "useUsersByRole",
     queryKey |-> QK_usersByRole(roleId, pageNumber, pageSize),
     enabled |-> roleId # ""]
useActiveUsers(pageNumber, pageSize) ==
    [hook |-> "useActiveUsers",
     queryKey |-> QK_activeUsers(pageNumber, pageSize),
     enabled |-> TRUE]

\* The arguments the model's components give the hooks.
SearchTerms == {"", "B"}
RoleIds == {"", "r1"}
ViewReads == {useUsers(ViewParams(t)) : t \in SearchTerms}
HookReads ==
    {useUser(id) : id \in Ids \cup {""}}
        \cup {useSearchUsers(t, Undefined, Undefined) : t \in SearchTerms}
        \cup {useUsersByRole(r, Undefined, Undefined) : r \in RoleIds}
        \cup {useActiveUsers(Undefined, Undefined)}
Reads == ViewReads \cup HookReads
Keys == {r.queryKey : r \in Reads} \cup {QK_session}
EnabledKey(k) == \E r \in Reads : r.queryKey = k /\ r.enabled

\* The components beside the Users view, by scenario: a detail component
\* of user "1"; components whose required argument is still empty.
DetailReads == {useUser("1")}
EmptyReads ==
    {useUser(""), useSearchUsers("", Undefined, Undefined),
     useUsersByRole("", Undefined, Undefined)}

\* ------------------------------------------------------------------- JSON
Quote(str) == <<"\"", str, "\"">>

\* JSON.stringify of a property's value: a number or a string, by the
\* property's type.
JsonValue(name, v) == IF name \in NumberFields THEN <<NumStr(v)>> ELSE Quote(v)

\* JSON.stringify of an object: the properties that hold a value, in the
\* object's own order; a property that is undefined is left out.
JsonObject(entries) ==
    LET held == SelectSeq(entries, LAMBDA e : e[2] # Undefined)
        texts == [i \in 1..Len(held) |->
                    Quote(held[i][1]) \o <<":">> \o JsonValue(held[i][1], held[i][2][1])]
    IN  <<"{">> \o Join(texts, ",") \o <<"}">>

\* The properties in the order of Object.keys(o).sort().
SortedEntries(entries) ==
    LET own == SelectSeq(SortedNames, LAMBDA n : HasOwn(entries, n))
    IN  [i \in 1..Len(own) |-> <<own[i], Get(entries, own[i])>>]

\* JSON.stringify of an array element that is an optional number or an
\* optional object: undefined becomes null.
JsonOptNumber(x) == IF x = Undefined THEN <<"null">> ELSE <<NumStr(x[1])>>
JsonOptSorted(x) ==
    IF x = Undefined THEN <<"null">> ELSE JsonObject(SortedEntries(x[1].entries))

\* Faulty variant of hashKey: an object is told apart by its identity.
hashKeyByIdentity(queryKey) ==
    LET elems ==
            CASE Len(queryKey) <= 2 ->
                   [i \in 1..Len(queryKey) |-> Quote(queryKey[i])]
              [] queryKey[2] = "paged" ->
                   <<Quote(queryKey[1]), Quote(queryKey[2]),
                     IF queryKey[3] = Undefined THEN <<"null">>
                     ELSE <<"object@", NumStr(queryKey[3][1].ref)>>>>
              [] queryKey[2] = "active" ->
                   <<Quote(queryKey[1]), Quote(queryKey[2]),
                     JsonOptNumber(queryKey[3]), JsonOptNumber(queryKey[4])>>
              [] OTHER ->
                   <<Quote(queryKey[1]), Quote(queryKey[2]), Quote(queryKey[3]),
                     JsonOptNumber(queryKey[4]), JsonOptNumber(queryKey[5])>>
    IN  <<"[">> \o Join(elems, ",") \o <<"]">>

\* The hash under which the query cache files a queryKey of the registry:
\* JSON.stringify of the array, the properties of an object sorted by name.
\* Two uses of a hook share a query exactly when the hashes are equal.
hashKey(queryKey) ==
    LET elems ==
            CASE Len(queryKey) <= 2 ->
                   [i \in 1..Len(queryKey) |-> Quote(queryKey[i])]
              [] queryKey[2] = "paged" ->
                   <<Quote(queryKey[1]), Quote(queryKey[2]), JsonOptSorted(queryKey[3])>>
              [] queryKey[2] = "active" ->
                   <<Quote(queryKey[1]), Quote(queryKey[2]),
                     JsonOptNumber(queryKey[3]), JsonOptNumber(queryKey[4])>>
              [] OTHER ->
                   <<Quote(queryKey[1]), Quote(queryKey[2]), Quote(queryKey[3]),
                     JsonOptNumber(queryKey[4]), JsonOptNumber(queryKey[5])>>
    IN  <<"[">> \o Join(elems, ",") \o <<"]">>

\* ---------------------------------------------------------------- Gateway
\* this.baseUrl with neither a constructor argument nor NEXT_PUBLIC_API_BASE.
BaseUrl == <<"http://localhost:3000">>

BodyMethods == {"POST", "PUT", "PATCH"}

\* application/x-www-form-urlencoded serialisation of one string.
FormEncode(str) == IF str = "a b" THEN "a+b" ELSE str

\* The string URLSearchParams makes of a property's value (ToString).
StringOf(name, v) ==
    IF v = Undefined THEN "undefined"
    ELSE IF name \in NumberFields THEN NumStr(v[1])
    ELSE v[1]

\* new URLSearchParams(params).toString(): every own property, in order.
SearchParams(entries) ==
    Join([i \in 1..Len(entries) |->
            <<FormEncode(entries[i][1]), "=",
              FormEncode(StringOf(entries[i][1], entries[i][2]))>>],
         "&")

\* Faulty variant of BuildRequest: the body is attached whenever data is
\* given, whatever the method.
BuildRequestBodyAlways(path, options) ==
    [url |-> BaseUrl \o path \o
             (IF options.params # Undefined
                  THEN <<"?">> \o SearchParams(options.params[1])
                  ELSE <<>>),
     method |-> IF options.method = Undefined THEN "GET" ELSE options.method[1],
     headers |-> <<<<"Content-Type", Some("application/json")>>>>,
     body |-> IF options.data # Undefined
                  THEN Some(JsonObject(options.data[1]))
                  ELSE Undefined]

\* ApiBase.makeRequest up to the call of fetch: the request it hands over.
\* options is [method, data, params], each optional; data and params are
\* object literals.
BuildRequest(path, options) ==
    LET method == IF options.method = Undefined THEN "GET" ELSE options.method[1]
    IN  [url |-> BaseUrl \o path \o
                 (IF options.params # Undefined
                      THEN <<"?">> \o SearchParams(options.params[1])
                      ELSE <<>>),
         method |-> method,
         headers |-> <<<<"Content-Type", Some("application/json")>>>>,
         body |-> IF options.data # Undefined /\ method \in BodyMethods
                      THEN Some(JsonObject(options.data[1]))
                      ELSE Undefined]

NoOptions == [method |-> Undefined, data |-> Undefined, params |-> Undefined]

\* ------------------------------------------------------------ UserService
\* Each operation as the arguments it gives makeRequest.
BasePath == <<"/api/users">>

createUser(userData) ==
    [path |-> BasePath,
     options |-> [method |-> Some("POST"), data |-> Some(userData), params |-> Undefined]]

getUserById(id) == [path |-> BasePath \o <<"/", id>>, options |-> NoOptions]

\* params: undefined, or the object the caller made.
getUsers(params) ==
    [path |-> BasePath,
     options |-> [method |-> Some("GET"), data |-> Undefined,
                  params |-> IF params = Undefined THEN Undefined
                             ELSE Some(params[1].entries)]]

\* Faulty variant of PageParams: `(pageNumber || 1).toString()`.
PageParamsOrBeforeToString(pageNumber, pageSize) ==
    <<<<"pageNumber", Some(IF pageNumber = Undefined \/ pageNumber = Some(0)
                               THEN "1" ELSE NumStr(pageNumber[1]))>>,
      <<"pageSize", Some(IF pageSize = Undefined \/ pageSize = Some(0)
                             THEN "10" ELSE NumStr(pageSize[1]))>>>>

\* pageNumber: pageNumber?.toString() || '1', pageSize: pageSize?.toString() || '10'
PageParams(pageNumber, pageSize) ==
    <<<<"pageNumber", Some(ToStringOr(pageNumber, "1"))>>,
      <<"pageSize", Some(ToStringOr(pageSize, "10"))>>>>

searchUsers(term, pageNumber, pageSize) ==
    [path |-> BasePath \o <<"/", "search">>,
     options |-> [method |-> Some("GET"), data |-> Undefined,
                  params |-> Some(<<<<"searchTerm", Some(term)>>>>
                                      \o PageParams(pageNumber, pageSize))]]

getUsersByRole(roleId, pageNumber, pageSize) ==
    [path |-> BasePath \o <<"/", "role", "/", roleId>>,
     options |-> [method |-> Some("GET"), data |-> Undefined,
                  params |-> Some(PageParams(pageNumber, pageSize))]]

getActiveUsers(pageNumber, pageSize) ==
    [path |-> BasePath \o <<"/", "active">>,
     options |-> [method |-> Some("GET"), data |-> Undefined,
                  params |-> Some(PageParams(pageNumber, pageSize))]]

updateUser(id, userData) ==
    [path |-> BasePath \o <<"/", id>>,
     options |-> [method |-> Some("PUT"), data |-> Some(userData), params |-> Undefined]]

deleteUser(id) ==
    [path |-> BasePath \o <<"/", id>>,
     options |-> [method |-> Some("DELETE"), data |-> Undefined, params |-> Undefined]]

updateUserStatus(id, status) ==
    [path |-> BasePath \o <<"/", id, "/", "status">>,
     options |-> [method |-> Some("PATCH"), data |-> Some(<<<<"status", Some(status)>>>>),
                  params |-> Undefined]]

\* ------------------------------------------------------------------ state
VARIABLES
    server,      \* the backend: id -> the user stored under it, or NoUser
    cache,       \* the query cache: key -> the query's state
    inflight,    \* key -> Resource Client calls running whose result the query awaits
    abandoned,   \* key -> Resource Client calls running whose result is dropped
    searchTerm,  \* the Users view's search box
    mut,         \* the view's four mutations: kind -> <<>> or <<variables>>
    issued,      \* mutations started so far
    call,        \* the Resource Client operation being carried out: <<>> or <<[op, args]>>
    request,     \* the HTTP request makeRequest handed to fetch: <<>> or <<request>>
    response,    \* what fetch settled with: <<>> or <<response>>
    outcome,     \* how makeRequest settled: <<>>, or <<[kind, value]>> returned or thrown
    consoleErrors, \* what console.error has been given, in order
    pc,          \* where the makeRequest call stands
    caught,      \* the error the catch block of makeRequest holds: <<>> or <<error>>
    uses,        \* two uses of the read hooks on screen: <<>> or <<[a, b]>>
    logins,      \* the login calls running, oldest first: the LoginDto of each
    isSigningIn, \* LoginForm's isSigningIn state
    loginError,  \* LoginForm's error state: <<>> (null) or <<message>>
    showPassword, \* LoginForm's showPassword state
    pushed,      \* whether LoginForm's onSuccess has called router.push("/")
    createForm,  \* the Users view's createForm state
    showCreateForm, \* the Users view's showCreateForm state
    editingUser, \* the Users view's editingUser state: <<>> (null) or <<user>>
    editForm,    \* the Users view's editForm state
    viewLog,     \* what the view's handlers have given console.error, in order
    pageNumber,  \* the Users view's pageNumber state
    others,      \* users the backend holds besides those of server, not named "B"
    namedB,       \* users named "B" the backend holds besides those of server
    pages,       \* the view's list queries by page: <<page, term>> -> the query
    session,     \* the session the session provider holds: <<>> or <<session>>
    credentials, \* what authorize was called with: <<>> or <<[username, password]>>
    res,         \* the response of the login call: <<>> or <<[status, body]>>
    authorized,  \* how authorize settled: <<>>, or <<[kind, value]>> returned or thrown
    authPc       \* where the sign-in stands

\* The query client, the view and the backend.
queryVars == <<server, cache, inflight, abandoned, searchTerm, mut, issued>>
\* One call of the Resource Client, and the read hooks' keys.
serviceVars == <<call, request, response, outcome, consoleErrors, pc, caught, uses>>

\* The login form.
loginVars == <<logins, isSigningIn, loginError, showPassword, pushed>>
\* The forms of the Users view.
formVars == <<createForm, showCreateForm, editingUser, editForm, viewLog>>
\* The pages of the Users view.
pagingVars == <<pageNumber, others, namedB, pages>>
\* The session provider.
authVars == <<session, credentials, res, authorized, authPc>>
uiVars == <<loginVars, formVars, pagingVars, authVars>>

vars == <<queryVars, serviceVars, uiVars>>

MutKinds == {"create", "update", "delete", "status"}

\* A query that is not in the cache.
NoQuery ==
    [data |-> NoData, status |-> "pending", fetchStatus |-> "idle",
     isInvalidated |-> FALSE, observers |-> 0]

Exists(q) == q # NoQuery

\* Query.isStaleByTime: no data, invalidated, or data older than the
\* freshness window (elapsed: whether the window has run out since the
\* data arrived, which the model leaves to the clock).
IsStaleByTime(q, elapsed) == q.data = NoData \/ q.isInvalidated \/ elapsed

\* Stale whatever the clock says.
IsStale(q) == IsStaleByTime(q, FALSE)

\* Faulty variant of MatchesKey: invalidateQueries() without a queryKey
\* filter, which matches every query.
MatchesKeyUnfiltered(filterKey, k) == TRUE

\* partialMatchKey: the filter's key is a prefix of the query's key.
MatchesKey(filterKey, k) ==
    /\ Len(filterKey) <= Len(k)
    /\ \A i \in 1..Len(filterKey) : k[i] = filterKey[i]

\* ---------------------------------------------------------------- backend
Present(srv) == {srv[i] : i \in {j \in Ids : srv[j] # NoUser}}

\* Whether the backend answers the read of key k with a 2xx, and with what.
CanRespond(k, srv) == k[2] \in Ids => srv[k[2]] # NoUser

Respond(k, srv) ==
    CASE k[2] = "paged" ->
           IF "SearchTerm" \in DOMAIN k[3]
               THEN {u \in Present(srv) : u.name = k[3].SearchTerm}
               ELSE Present(srv)
      [] k[2] = "search" -> {u \in Present(srv) : u.name = k[3]}
      [] k[2] = "role" -> Present(srv)
      [] k[2] = "active" -> {u \in Present(srv) : u.status = "active"}
      [] OTHER -> {srv[k[2]]}

\* ------------------------------------------------------------ query client
\* Query.fetch as an observer's mount calls it (no cancelRefetch): a query
\* already fetching is joined, an idle one starts a Resource Client call.
\* c is the triple [cache, inflight, abandoned].
FetchQuery(c, k) ==
    IF c.cache[k].fetchStatus = "fetching"
        THEN c
        ELSE [c EXCEPT
                !.cache[k].fetchStatus = "fetching",
                !.cache[k].status =
                    IF c.cache[k].data = NoData THEN "pending" ELSE @,
                !.inflight[k] = @ + 1]

\* Query.fetch with cancelRefetch, as refetchQueries calls it: a running
\* fetch of a query that has data is cancelled silently and a new call is
\* started; the queryFn never reads the abort signal, so the cancelled
\* call keeps running and its result is dropped.
RefetchQuery(c, k) ==
    IF c.cache[k].fetchStatus = "fetching" /\ c.cache[k].data # NoData
        THEN [c EXCEPT !.abandoned[k] = @ + 1]
        ELSE FetchQuery(c, k)

\* Faulty variant of InvalidateOne: refetchQueries in place of
\* invalidateQueries, so a matching query is refetched when it is observed
\* but never marked.
InvalidateOneRefetchOnly(c, filterKey, k) ==
    IF Exists(c.cache[k]) /\ MatchesKey(filterKey, k)
           /\ c.cache[k].observers > 0 /\ EnabledKey(k)
        THEN RefetchQuery(c, k)
        ELSE c

\* Faulty variant of InvalidateOne: resetQueries in place of
\* invalidateQueries, so a matching query loses its value.
InvalidateOneResetting(c, filterKey, k) ==
    IF ~(Exists(c.cache[k]) /\ MatchesKey(filterKey, k))
        THEN c
        ELSE LET reset == [c EXCEPT !.cache[k].data = NoData,
                                    !.cache[k].status = "pending",
                                    !.cache[k].isInvalidated = FALSE]
             IN  IF reset.cache[k].observers > 0 /\ EnabledKey(k)
                     THEN RefetchQuery(reset, k)
                     ELSE reset

\* queryClient.invalidateQueries({ queryKey }): every query in the cache
\* whose key the filter matches is marked invalidated, and those with an
\* enabled observer are refetched.
InvalidateOne(c, filterKey, k) ==
    IF ~(Exists(c.cache[k]) /\ MatchesKey(filterKey, k))
        THEN c
        ELSE LET marked == [c EXCEPT !.cache[k].isInvalidated = TRUE]
             IN  IF marked.cache[k].observers > 0 /\ EnabledKey(k)
                     THEN RefetchQuery(marked, k)
                     ELSE marked

InvalidateQueries(c, filterKey) ==
    [cache |-> [k \in Keys |-> InvalidateOne(c, filterKey, k).cache[k]],
     inflight |-> [k \in Keys |-> InvalidateOne(c, filterKey, k).inflight[k]],
     abandoned |-> [k \in Keys |-> InvalidateOne(c, filterKey, k).abandoned[k]]]

Client == [cache |-> cache, inflight |-> inflight, abandoned |-> abandoned]

SetClient(c) ==
    /\ cache' = c.cache
    /\ inflight' = c.inflight
    /\ abandoned' = c.abandoned

\* An observer subscribes to query k: it fetches when the hook is enabled
\* and the query is stale (refetchOnMount).
Subscribe(c, k, elapsed) ==
    LET added == [c EXCEPT !.cache[k].observers = @ + 1]
    IN  IF EnabledKey(k) /\ IsStaleByTime(c.cache[k], elapsed)
            THEN FetchQuery(added, k)
            ELSE added

Unsubscribe(c, k) == [c EXCEPT !.cache[k].observers = @ - 1]


\* ------------------------------------------------------------------- Init
ViewKey(term) == useUsers(ViewParams(term)).queryKey

\* useState of createForm: every field the empty string.
InitialCreateForm ==
    <<<<"email", Some("")>>, <<"name", Some("")>>,
      <<"phone", Some("")>>, <<"password", Some("")>>>>

\* useState of editForm.
InitialEditForm ==
    <<<<"email", Some("")>>, <<"name", Some("")>>,
      <<"phone", Some("")>>, <<"status", Some("active")>>>>

\* A list query of the view that is not in the cache.
NoPage == [data |-> NoData, fetching |-> FALSE, isInvalidated |-> FALSE]

\* The users a backend with more than one page of users holds besides the
\* two of server.
InitialOthers == 9

\* The pages the view can come to ask for.
PageNumbers == 1..((Cardinality(Ids) + InitialOthers + MaxMutations) \div PageSize + 1)
PageKeys == PageNumbers \X SearchTerms

EmptyClient ==
    [cache |-> [k \in Keys |-> NoQuery],
     inflight |-> [k \in Keys |-> 0],
     abandoned |-> [k \in Keys |-> 0]]

\* The Users view has rendered once: its useUsers observer is subscribed
\* and the first list read is running. The users of server exist on the
\* backend, and `more` further users.
Started(more) ==
    /\ server = [i \in Ids |-> [id |-> i, name |-> "A", status |-> "active"]]
    /\ searchTerm = ""
    /\ cache = Subscribe(EmptyClient, ViewKey(""), FALSE).cache
    /\ inflight = Subscribe(EmptyClient, ViewKey(""), FALSE).inflight
    /\ abandoned = Subscribe(EmptyClient, ViewKey(""), FALSE).abandoned
    /\ mut = [m \in MutKinds |-> <<>>]
    /\ issued = 0
    /\ call = Undefined
    /\ request = Undefined
    /\ response = Undefined
    /\ outcome = Undefined
    /\ consoleErrors = <<>>
    /\ pc = "idle"
    /\ caught = Undefined
    /\ uses = Undefined
    /\ logins = <<>>
    /\ isSigningIn = FALSE
    /\ loginError = Undefined
    /\ showPassword = FALSE
    /\ pushed = FALSE
    /\ createForm = InitialCreateForm
    /\ showCreateForm = FALSE
    /\ editingUser = Undefined
    /\ editForm = InitialEditForm
    /\ viewLog = <<>>
    /\ pageNumber = InitialPage
    /\ others = more
    /\ namedB = 0
    /\ pages = [k \in PageKeys |->
                  IF k = <<InitialPage, "">> THEN [NoPage EXCEPT !.fetching = TRUE] ELSE NoPage]
    /\ session = Undefined
    /\ credentials = Undefined
    /\ res = Undefined
    /\ authorized = Undefined
    /\ authPc = "idle"

\* Two users exist on the backend.
Init == Started(0)

\* The backend holds more users than a page has rows.
InitPages == Started(InitialOthers)

\* ------------------------------------------------------------------ reads
RECURSIVE SumObservers(_)
SumObservers(reads) ==
    IF reads = {}
        THEN 0
        ELSE LET r == CHOOSE x \in reads : TRUE
             IN  cache[r.queryKey].observers + SumObservers(reads \ {r})

\* The observers the components beside the view hold.
HookObservers == SumObservers(HookReads)

\* A component renders with read hook r.
Mount(r, elapsed) ==
    /\ HookObservers < MaxObservers
    /\ SetClient(Subscribe(Client, r.queryKey, elapsed))
    /\ UNCHANGED <<uiVars, serviceVars, server, searchTerm, mut, issued>>

\* A component using read hook r unmounts. A running call is left running.
Unmount(r) ==
    /\ cache[r.queryKey].observers > 0
    /\ SetClient(Unsubscribe(Client, r.queryKey))
    /\ UNCHANGED <<uiVars, serviceVars, server, searchTerm, mut, issued>>

\* The awaited Resource Client call of query k resolves. The backend's
\* answer is the one it gives at that moment.
FetchSuccess(k) ==
    /\ inflight[k] > 0
    /\ CanRespond(k, server)
    /\ inflight' = [inflight EXCEPT ![k] = @ - 1]
    /\ cache' = [cache EXCEPT
                    ![k].data = Some(Respond(k, server)),
                    ![k].status = "success",
                    ![k].fetchStatus = IF inflight[k] = 1 THEN "idle" ELSE @,
                    ![k].isInvalidated = FALSE]
    /\ UNCHANGED <<uiVars, serviceVars, server, abandoned, searchTerm, mut, issued>>

\* Faulty variant of FetchFail: the failure drops the value the query held.
FetchFailClearing(k) ==
    /\ inflight[k] > 0
    /\ inflight' = [inflight EXCEPT ![k] = @ - 1]
    /\ cache' = [cache EXCEPT
                    ![k].data = NoData,
                    ![k].status = "error",
                    ![k].fetchStatus = IF inflight[k] = 1 THEN "idle" ELSE @]
    /\ UNCHANGED <<uiVars, serviceVars, server, abandoned, searchTerm, mut, issued>>

\* The awaited Resource Client call of query k rejects for good (transport
\* failure or non-2xx): the query keeps what it holds and shows the error.
FetchFail(k) ==
    /\ inflight[k] > 0
    /\ inflight' = [inflight EXCEPT ![k] = @ - 1]
    /\ cache' = [cache EXCEPT
                    ![k].status = "error",
                    ![k].fetchStatus = IF inflight[k] = 1 THEN "idle" ELSE @]
    /\ UNCHANGED <<uiVars, serviceVars, server, abandoned, searchTerm, mut, issued>>

\* A cancelled call settles; nobody reads its result.
AbandonedSettles(k) ==
    /\ abandoned[k] > 0
    /\ abandoned' = [abandoned EXCEPT ![k] = @ - 1]
    /\ UNCHANGED <<uiVars, serviceVars, server, cache, inflight, searchTerm, mut, issued>>

\* Garbage collection: an unobserved idle query leaves the cache.
Evict(k) ==
    /\ Exists(cache[k])
    /\ cache[k].observers = 0
    /\ cache[k].fetchStatus = "idle"
    /\ cache' = [cache EXCEPT ![k] = NoQuery]
    /\ UNCHANGED <<uiVars, serviceVars, server, inflight, abandoned, searchTerm, mut, issued>>


\* -------------------------------------------------------------- Users view
\* The view renders its table, forms and search box only when its list
\* query is neither loading for the first time nor in error.
ViewShown ==
    LET q == cache[ViewKey(searchTerm)]
    IN  /\ ~(q.fetchStatus = "fetching" /\ q.status = "pending")
        /\ q.status # "error"
        /\ q.data # NoData

\* The rows of the table: usersData.data.
Rows == IF ViewShown THEN cache[ViewKey(searchTerm)].data[1] ELSE {}

\* onChange of the search box: the view's observer moves to the new key.
SetSearchTerm(t, elapsed) ==
    /\ t # searchTerm
    /\ searchTerm' = t
    /\ ViewShown
    /\ SetClient(Subscribe(Unsubscribe(Client, ViewKey(searchTerm)), ViewKey(t), elapsed))
    /\ UNCHANGED <<uiVars, serviceVars, server, mut, issued>>

IsPending(kind) == mut[kind] # <<>>

\* Faulty variant of Mutate: an onMutate handler writes the variables
\* merged into the cached user with setQueryData (the optimistic pattern of
\* src/queries/README.md), and nothing reconciles it afterwards.
MutateOptimistic(kind, id, name, status) ==
    /\ ViewShown
    /\ ~IsPending(kind)
    /\ issued < MaxMutations
    /\ issued' = issued + 1
    /\ mut' = [mut EXCEPT ![kind] =
                 <<[id |-> id, name |-> name, status |-> status,
                    prev |-> IF id \in Ids THEN cache[QK_user(id)].data ELSE NoData]>>]
    /\ cache' =
         IF kind \in {"update", "status"} /\ cache[QK_user(id)].data # NoData
             THEN [cache EXCEPT ![QK_user(id)].data =
                     Some({[u EXCEPT !.name = IF kind = "update" THEN name ELSE @,
                                     !.status = status] : u \in cache[QK_user(id)].data[1]})]
             ELSE cache
    /\ UNCHANGED <<uiVars, serviceVars, server, inflight, abandoned, searchTerm>>

\* mutateAsync(variables): the mutation is pending and its call is running.
\* prev records what the single-user query of id held at that moment.
Mutate(kind, id, name, status) ==
    /\ ViewShown
    /\ ~IsPending(kind)
    /\ issued < MaxMutations
    /\ issued' = issued + 1
    /\ mut' = [mut EXCEPT ![kind] =
                 <<[id |-> id, name |-> name, status |-> status,
                    prev |-> IF id \in Ids THEN cache[QK_user(id)].data ELSE NoData]>>]
    /\ UNCHANGED <<uiVars, serviceVars, server, cache, inflight, abandoned, searchTerm>>

\* handleCreateUser: submit of the create form.
StartCreate(name) == Mutate("create", "", name, "")

\* handleUpdateUser: submit of the edit form (name and status of editForm).
StartUpdate(id, name, status) == Mutate("update", id, name, status)

\* handleDeleteUser on a row, confirmed.
StartDelete(id) == id \in {u.id : u \in Rows} /\ Mutate("delete", id, "", "")

\* handleStatusChange: onChange of a row's status select.
StartStatus(id, status) ==
    /\ \E u \in Rows : u.id = id /\ u.status # status
    /\ Mutate("status", id, "", status)

\* Faulty variant of OnSuccessKeys: the invalidation of the ['users']
\* family is left out.
OnSuccessKeysDetailOnly(kind, id) ==
    IF kind \in {"update", "status"} THEN <<QK_user(id)>> ELSE <<>>

\* The filters the mutation's onSuccess hands to invalidateQueries, in order.
OnSuccessKeys(kind, id) ==
    IF kind \in {"update", "status"}
        THEN <<QK_user(id), QK_users>>
        ELSE <<QK_users>>

RECURSIVE InvalidateEach(_, _)
InvalidateEach(c, filterKeys) ==
    IF filterKeys = <<>>
        THEN c
        ELSE InvalidateEach(InvalidateQueries(c, Head(filterKeys)), Tail(filterKeys))

\* The backend after it has carried out mutation kind with variables v;
\* a created user gets the free identifier i and the status s.
Applied(kind, v, i, s) ==
    CASE kind = "create" ->
           [server EXCEPT ![i] = [id |-> i, name |-> v.name, status |-> s]]
      [] kind = "update" ->
           [server EXCEPT ![v.id].name = v.name, ![v.id].status = v.status]
      [] kind = "delete" -> [server EXCEPT ![v.id] = NoUser]
      [] kind = "status" -> [server EXCEPT ![v.id].status = v.status]

\* The call of pending mutation kind resolves and the hook's onSuccess
\* runs: what the mutation does to the backend, the cache and itself.
OnSuccess(kind) ==
    /\ IsPending(kind)
    /\ LET v == mut[kind][1]
       IN  /\ \E i \in Ids, s \in Status :
                /\ IF kind = "create"
                       THEN server[i] = NoUser /\ s = "active"
                       ELSE i = v.id /\ server[i] # NoUser /\ s = server[i].status
                /\ server' = Applied(kind, v, i, s)
           /\ SetClient(InvalidateEach(Client, OnSuccessKeys(kind, v.id)))
    /\ mut' = [mut EXCEPT ![kind] = <<>>]
    /\ UNCHANGED <<serviceVars, searchTerm, issued>>

\* The call of pending mutation kind resolves: onSuccess runs.
MutationSuccess(kind) == OnSuccess(kind) /\ UNCHANGED uiVars

\* The call of pending mutation kind rejects: the hooks have no onError,
\* so nothing touches the cache, and mutateAsync rejects.
OnError(kind) ==
    /\ IsPending(kind)
    /\ mut' = [mut EXCEPT ![kind] = <<>>]
    /\ UNCHANGED <<serviceVars, server, cache, inflight, abandoned, searchTerm, issued>>

\* The call of pending mutation kind rejects; what the view's catch block
\* writes to the console is not followed.
MutationError(kind) == OnError(kind) /\ UNCHANGED uiVars

\* ------------------------------------------------------------------- Next
\* Components using the read hooks of `reads` come and go.
Reading(reads) ==
    \/ \E r \in reads, elapsed \in BOOLEAN : Mount(r, elapsed)
    \/ \E r \in reads : Unmount(r)

\* The user types in the view's search box.
Searching == \E t \in SearchTerms, elapsed \in BOOLEAN : SetSearchTerm(t, elapsed)

\* Calls settle, unobserved queries are collected.
Network ==
    \/ \E k \in Keys : FetchSuccess(k)
    \/ \E k \in Keys : FetchFail(k)
    \/ \E k \in Keys : AbandonedSettles(k)
    \/ \E k \in Keys : Evict(k)

\* The user edits the rows of the users `ids`: the edit form and the status
\* select.
Editing(ids) ==
    \/ \E i \in ids, n \in FormNames, s \in FormStatus : StartUpdate(i, n, s)
    \/ \E i \in ids, s \in FormStatus : StartStatus(i, s)

\* The user adds users and deletes the rows of the users `ids`.
AddingAndDeleting(ids) ==
    \/ \E n \in FormNames : StartCreate(n)
    \/ \E i \in ids : StartDelete(i)

\* Pending mutations settle.
Settling ==
    \/ \E m \in MutKinds : MutationSuccess(m)
    \/ \E m \in MutKinds : MutationError(m)

\* The Users view edits user "1" while detail components show that user.
Next == Reading(DetailReads) \/ Network \/ Editing({"1"}) \/ Settling

Spec == Init /\ [][Next]_vars

\* The Users view with its search box in use.
NextLists == Searching \/ Network \/ Editing({"1"}) \/ AddingAndDeleting({"1"}) \/ Settling

SpecLists == Init /\ [][NextLists]_vars

\* The Users view and components whose hooks are disabled by an empty argument.
NextEmpty == Reading(EmptyReads) \/ Network \/ Editing({"1"}) \/ AddingAndDeleting({"1"}) \/ Settling

SpecEmpty == Init /\ [][NextEmpty]_vars


\* ------------------------------------------------------------- login form
\* The most login calls the model lets run together.
MaxLogins == 3

\* What the user can submit: values the form's schema accepts.
LoginDtos ==
    {[username |-> "u", password |-> "p"], [username |-> "u", password |-> "wrong"]}

\* session?.user as getSession() gives it after a login.
SessionUser == [id |-> "1", username |-> "u"]

\* disabled={isLoading || isSigningIn} of the submit button; the page gives
\* LoginForm no isLoading, so it is the default false.
SubmitDisabled == FALSE \/ isSigningIn

\* queryClient.setQueryData(key, data): nothing happens for undefined data;
\* otherwise the query is built if it is missing and holds data, fresh.
SetQueryData(c, k, data) ==
    IF data = Undefined
        THEN c
        ELSE [c EXCEPT ![k] =
                 [@ EXCEPT !.data = data, !.status = "success", !.isInvalidated = FALSE]]

\* The eye button of the password field.
ToggleShowPassword ==
    /\ showPassword' = ~showPassword
    /\ UNCHANGED <<queryVars, serviceVars, formVars, pagingVars, authVars,
                   logins, isSigningIn, loginError, pushed>>

\* handleFormSubmit, run by a click on the enabled submit button with valid
\* values: setIsSigningIn(true), setError(null), login(data) starts the
\* mutation and returns, and the finally block sets isSigningIn to false
\* before the handler ends.
SubmitLogin(dto) ==
    /\ ~SubmitDisabled
    /\ Len(logins) < MaxLogins
    /\ logins' = Append(logins, dto)
    /\ isSigningIn' = FALSE
    /\ loginError' = Undefined
    /\ UNCHANGED <<queryVars, serviceVars, formVars, pagingVars, authVars,
                   showPassword, pushed>>

\* The i-th running login call resolves: useLoginMutation's onSuccess reads
\* the session, writes its user under ['user'] and calls the form's
\* onSuccess, which pushes "/".
LoginResolves(i, user) ==
    /\ i \in 1..Len(logins)
    /\ logins' = SubSeq(logins, 1, i - 1) \o SubSeq(logins, i + 1, Len(logins))
    /\ cache' = SetQueryData(cache, QK_session, user)
    /\ pushed' = TRUE
    /\ UNCHANGED <<server, inflight, abandoned, searchTerm, mut, issued,
                   serviceVars, formVars, pagingVars, authVars,
                   isSigningIn, loginError, showPassword>>

\* The i-th running login call rejects: onError hands the message to the
\* form's setError.
LoginRejects(i) ==
    /\ i \in 1..Len(logins)
    /\ logins' = SubSeq(logins, 1, i - 1) \o SubSeq(logins, i + 1, Len(logins))
    /\ loginError' = Some("Invalid credentials")
    /\ UNCHANGED <<queryVars, serviceVars, formVars, pagingVars, authVars,
                   isSigningIn, showPassword, pushed>>

\* The user at the login form.
LoggingIn ==
    \/ ToggleShowPassword
    \/ \E dto \in LoginDtos : SubmitLogin(dto)

\* Login calls settle.
LoginSettling ==
    \/ \E i \in 1..MaxLogins, user \in {Undefined, Some(SessionUser)} : LoginResolves(i, user)
    \/ \E i \in 1..MaxLogins : LoginRejects(i)

\* The login form alone; the session's entry may be collected.
NextLogin == LoggingIn \/ LoginSettling \/ Evict(QK_session)

SpecLogin == Init /\ [][NextLogin]_vars

\* --------------------------------------------------- the view after a login
\* Components beside the Users view that read the rest of the ['users']
\* family: a user the view does not edit, a search, a role, the active users.
FamilyReads ==
    {useUser("2"), useSearchUsers("B", Undefined, Undefined),
     useUsersByRole("r1", Undefined, Undefined), useActiveUsers(Undefined, Undefined)}

\* The user signs in once and waits for the answer.
SigningIn ==
    \/ logins = <<>> /\ ~pushed /\ SubmitLogin([username |-> "u", password |-> "p"])
    \/ \E user \in {Undefined, Some(SessionUser)} : LoginResolves(1, user)

\* The components come on screen and stay.
Showing == \E r \in FamilyReads : Mount(r, FALSE)

\* The backend answers every read.
Answering ==
    \/ \E k \in Keys : FetchSuccess(k)
    \/ \E k \in Keys : AbandonedSettles(k)

\* The user changes the status of user "1" in the table.
ChangingStatus == \E s \in FormStatus : StartStatus("1", s)

\* The session's entry may be collected.
NextSession ==
    SigningIn \/ Showing \/ Answering \/ Evict(QK_session) \/ ChangingStatus \/ Settling

SpecSession == Init /\ [][NextSession]_vars

\* ------------------------------------------------- the Users view's forms
\* { ...form, [name]: value }
With(form, name, value) ==
    [i \in 1..Len(form) |-> IF form[i][1] = name THEN <<name, Some(value)>> ELSE form[i]]

\* What the user can type into the create form, by field.
CreateInputs ==
    {<<"email", "b@x.io">>, <<"name", "B">>, <<"password", "pw">>}

\* What the user can put into the edit form, by field.
EditInputs ==
    {<<"name", n>> : n \in FormNames} \cup {<<"status", s>> : s \in FormStatus}

\* The users of the model carry no email and no phone: every user's email
\* is b@x.io and no user has a phone.
FormOf(user) ==
    <<<<"email", Some("b@x.io")>>, <<"name", Some(user.name)>>,
      <<"phone", Some("")>>, <<"status", Some(user.status)>>>>

\* The text a handler's catch block gives console.error before the error.
FailureLabel(kind) ==
    CASE kind = "create" -> "Failed to create user:"
      [] kind = "update" -> "Failed to update user:"
      [] kind = "delete" -> "Failed to delete user:"
      [] kind = "status" -> "Failed to update user status:"

\* onClick of 'Create New User'.
OpenCreateForm ==
    /\ ViewShown
    /\ ~showCreateForm
    /\ showCreateForm' = TRUE
    /\ UNCHANGED <<queryVars, serviceVars, loginVars, pagingVars, authVars,
                   createForm, editingUser, editForm, viewLog>>

\* onChange of an input of the create form.
SetCreateForm(name, value) ==
    /\ ViewShown
    /\ showCreateForm
    /\ Get(createForm, name) # Some(value)
    /\ createForm' = With(createForm, name, value)
    /\ UNCHANGED <<queryVars, serviceVars, loginVars, pagingVars, authVars,
                   showCreateForm, editingUser, editForm, viewLog>>

\* onClick of the create form's Cancel.
CancelCreate ==
    /\ ViewShown
    /\ showCreateForm
    /\ showCreateForm' = FALSE
    /\ UNCHANGED <<queryVars, serviceVars, loginVars, pagingVars, authVars,
                   createForm, editingUser, editForm, viewLog>>

\* handleCreateUser up to its await: the form is submitted with its
\* required fields filled in; the submit button is disabled while the
\* create mutation is pending.
SubmitCreate ==
    /\ showCreateForm
    /\ \A name \in {"email", "name", "password"} : Get(createForm, name) # Some("")
    /\ StartCreate(Get(createForm, "name")[1])

\* handleCreateUser after its await, when mutateAsync resolved: the form is
\* reset and closed.
CreateSucceeds ==
    /\ OnSuccess("create")
    /\ createForm' = InitialCreateForm
    /\ showCreateForm' = FALSE
    /\ UNCHANGED <<loginVars, pagingVars, authVars, editingUser, editForm, viewLog>>

\* startEdit: onClick of a row's Edit.
startEdit(user) ==
    /\ ViewShown
    /\ user \in Rows
    /\ editingUser # Some(user) \/ editForm # FormOf(user)
    /\ editingUser' = Some(user)
    /\ editForm' = FormOf(user)
    /\ UNCHANGED <<queryVars, serviceVars, loginVars, pagingVars, authVars,
                   createForm, showCreateForm, viewLog>>

\* onChange of an input or of the status select of the edit form.
SetEditForm(name, value) ==
    /\ ViewShown
    /\ editingUser # Undefined
    /\ Get(editForm, name) # Some(value)
    /\ editForm' = With(editForm, name, value)
    /\ UNCHANGED <<queryVars, serviceVars, loginVars, pagingVars, authVars,
                   createForm, showCreateForm, editingUser, viewLog>>

\* onClick of the edit form's Cancel.
CancelEdit ==
    /\ ViewShown
    /\ editingUser # Undefined
    /\ editingUser' = Undefined
    /\ UNCHANGED <<queryVars, serviceVars, loginVars, pagingVars, authVars,
                   createForm, showCreateForm, editForm, viewLog>>

\* handleUpdateUser up to its await: mutateAsync({ id: editingUser.id,
\* data: editForm }).
SubmitUpdate ==
    /\ editingUser # Undefined
    /\ \A name \in {"email", "name"} : Get(editForm, name) # Some("")
    /\ StartUpdate(editingUser[1].id, Get(editForm, "name")[1], Get(editForm, "status")[1])

\* handleUpdateUser after its await, when mutateAsync resolved.
UpdateSucceeds ==
    /\ OnSuccess("update")
    /\ editingUser' = Undefined
    /\ editForm' = InitialEditForm
    /\ UNCHANGED <<loginVars, pagingVars, authVars, createForm, showCreateForm, viewLog>>

\* Faulty variant of HandlerCatches: the cleanup of the form is in a finally
\* block, so it also runs after a failure.
HandlerCatchesResetting(kind) ==
    /\ OnError(kind)
    /\ viewLog' = Append(viewLog, FailureLabel(kind))
    /\ createForm' = IF kind = "create" THEN InitialCreateForm ELSE createForm
    /\ showCreateForm' = IF kind = "create" THEN FALSE ELSE showCreateForm
    /\ editingUser' = IF kind = "update" THEN Undefined ELSE editingUser
    /\ editForm' = IF kind = "update" THEN InitialEditForm ELSE editForm
    /\ UNCHANGED <<loginVars, pagingVars, authVars>>

\* Faulty variant of HandlerCatches: the hook has an onSettled that
\* invalidates the ['users'] family after a failure as well.
HandlerCatchesInvalidating(kind) ==
    /\ IsPending(kind)
    /\ mut' = [mut EXCEPT ![kind] = <<>>]
    /\ SetClient(InvalidateQueries(Client, QK_users))
    /\ viewLog' = Append(viewLog, FailureLabel(kind))
    /\ UNCHANGED <<serviceVars, server, searchTerm, issued, loginVars, pagingVars,
                   authVars, createForm, showCreateForm, editingUser, editForm>>

\* The catch block of the handler of mutation kind, when mutateAsync
\* rejected: console.error(label, error), and nothing else.
HandlerCatches(kind) ==
    /\ OnError(kind)
    /\ viewLog' = Append(viewLog, FailureLabel(kind))
    /\ UNCHANGED <<loginVars, pagingVars, authVars,
                   createForm, showCreateForm, editingUser, editForm>>

\* The user at the create form.
Creating ==
    \/ OpenCreateForm
    \/ \E in \in CreateInputs : SetCreateForm(in[1], in[2])
    \/ CancelCreate
    \/ SubmitCreate

\* The user at the edit form of the users `ids`.
EditingForm(ids) ==
    \/ \E u \in Rows : u.id \in ids /\ startEdit(u)
    \/ \E in \in EditInputs : SetEditForm(in[1], in[2])
    \/ CancelEdit
    \/ SubmitUpdate

\* The user deletes the rows of the users `ids` while no form is open.
Deleting(ids) ==
    /\ ~showCreateForm
    /\ editingUser = Undefined
    /\ \E i \in ids : StartDelete(i)

\* The awaits of the handlers end.
HandlersResume ==
    \/ CreateSucceeds
    \/ UpdateSucceeds
    \/ MutationSuccess("delete")
    \/ \E m \in {"create", "update"} : HandlerCatches(m)

\* The user edits user "1", may delete user "2", and adds users.
NextForms ==
    Creating \/ EditingForm({"1"}) \/ Deleting({"2"}) \/ HandlersResume \/ Answering

SpecForms == Init /\ [][NextForms]_vars

\* The four writes of the view with the values of its forms left open, and
\* what the handlers do when their awaits end.
WritesSettle ==
    \/ \E m \in MutKinds : MutationSuccess(m)
    \/ \E m \in MutKinds : HandlerCatches(m)

\* Reads are answered or fail.
NextWrites ==
    \/ Editing({"1"})
    \/ AddingAndDeleting({"1"})
    \/ WritesSettle
    \/ Answering
    \/ \E k \in Keys : FetchFail(k)

SpecWrites == Init /\ [][NextWrites]_vars

\* ------------------------------------------------- the Users view's pages
\* The list reads of the view by page. The backend's users are counted: the
\* users of server, `others` further users, and `namedB` users named "B".
TotalCount(term) ==
    IF term = ""
        THEN Cardinality(Present(server)) + others + namedB
        ELSE Cardinality({u \in Present(server) : u.name = term}) + namedB

Ceil(n, d) == (n + d - 1) \div d

\* The rows of page p of n rows, size rows a page.
RowsOnPage(n, p, size) ==
    IF n - (p - 1) * size < 0 THEN 0
    ELSE IF n - (p - 1) * size > size THEN size
    ELSE n - (p - 1) * size

\* The PagedUserResponse of the backend for the list read of key k; length
\* is the number of users in data.
PagedResponse(k) ==
    [length |-> RowsOnPage(TotalCount(k[2]), k[1], PageSize),
     totalCount |-> TotalCount(k[2]),
     pageNumber |-> k[1],
     pageSize |-> PageSize,
     totalPages |-> Ceil(TotalCount(k[2]), PageSize)]

\* The key of useUsers({ PageNumber: pageNumber, PageSize: pageSize,
\* SearchTerm: searchTerm || undefined }) by page and term.
PageKey == <<pageNumber, searchTerm>>

\* usersData, when the view shows its list: the query has data (isLoading
\* is false).
ListShown == pages[PageKey].data # NoData
usersData == pages[PageKey].data[1]

\* Whether the pagination controls are rendered.
PaginationShown == ListShown /\ usersData.totalPages > 1

\* The view's observer moves to key k: the query is fetched when it has no
\* data, is invalidated or its data is older than the freshness window.
ObservePage(ps, k, elapsed) ==
    IF ps[k].data = NoData \/ ps[k].isInvalidated \/ elapsed
        THEN [ps EXCEPT ![k].fetching = TRUE]
        ELSE ps

\* The list read of key k resolves with the backend's page.
PageFetchSuccess(k) ==
    /\ pages[k].fetching
    /\ pages' = [pages EXCEPT ![k] =
                   [data |-> Some(PagedResponse(k)), fetching |-> FALSE,
                    isInvalidated |-> FALSE]]
    /\ UNCHANGED <<queryVars, serviceVars, loginVars, formVars, authVars,
                   pageNumber, others, namedB>>

\* onClick of Previous: setPageNumber(pageNumber - 1).
ClickPrevious(elapsed) ==
    /\ PaginationShown
    /\ pageNumber # 1
    /\ pageNumber' = pageNumber - 1
    /\ pages' = ObservePage(pages, <<pageNumber - 1, searchTerm>>, elapsed)
    /\ UNCHANGED <<queryVars, serviceVars, loginVars, formVars, authVars, others, namedB>>

\* onClick of Next: setPageNumber(pageNumber + 1).
ClickNext(elapsed) ==
    /\ PaginationShown
    /\ pageNumber # usersData.totalPages
    /\ pageNumber' = pageNumber + 1
    /\ pages' = ObservePage(pages, <<pageNumber + 1, searchTerm>>, elapsed)
    /\ UNCHANGED <<queryVars, serviceVars, loginVars, formVars, authVars, others, namedB>>

\* onChange of the search box: setSearchTerm(e.target.value); the page
\* number stays.
TypeSearch(t, elapsed) ==
    /\ ListShown
    /\ t # searchTerm
    /\ searchTerm' = t
    /\ pages' = ObservePage(pages, <<pageNumber, t>>, elapsed)
    /\ UNCHANGED <<server, cache, inflight, abandoned, mut, issued, serviceVars,
                   loginVars, formVars, authVars, pageNumber, others, namedB>>

\* A write of the view starts: mutateAsync of mutation kind.
PageMutate(kind, name) ==
    /\ ListShown
    /\ ~IsPending(kind)
    /\ issued < MaxMutations
    /\ issued' = issued + 1
    /\ mut' = [mut EXCEPT ![kind] = <<[id |-> "", name |-> name, status |-> "", prev |-> NoData]>>]
    /\ UNCHANGED <<server, cache, inflight, abandoned, searchTerm, serviceVars, uiVars>>

\* handleCreateUser with the name B in the create form.
CreateOnPage == PageMutate("create", "B")

\* handleDeleteUser on a row of the page shown, a user named `name`.
DeleteOnPage(name) ==
    /\ ListShown
    /\ usersData.length > 0
    /\ IF name = "B" THEN namedB > 0 ELSE searchTerm = "" /\ others > 0
    /\ PageMutate("delete", name)

\* invalidateQueries({ queryKey: ['users'] }) on the list queries: each is
\* marked invalidated and the one the view observes is fetched again.
InvalidatePages(ps) ==
    [k \in PageKeys |->
        [ps[k] EXCEPT !.isInvalidated = ps[k].data # NoData \/ ps[k].fetching,
                      !.fetching = (k = PageKey) \/ ps[k].fetching]]

\* The create or delete resolves: the backend has carried it out and the
\* hook's onSuccess invalidates the ['users'] family.
PageWriteSuccess(kind) ==
    /\ IsPending(kind)
    /\ kind \in {"create", "delete"}
    /\ LET named == mut[kind][1].name
           by == IF kind = "create" THEN 1 ELSE -1
       IN  /\ namedB' = IF named = "B" THEN namedB + by ELSE namedB
           /\ others' = IF named = "B" THEN others ELSE others + by
           /\ namedB' >= 0 /\ others' >= 0
    /\ mut' = [mut EXCEPT ![kind] = <<>>]
    /\ pages' = InvalidatePages(pages)
    /\ UNCHANGED <<server, cache, inflight, abandoned, searchTerm, issued, serviceVars,
                   loginVars, formVars, authVars, pageNumber>>

\* The user pages through the list.
Paging ==
    \/ \E elapsed \in BOOLEAN : ClickPrevious(elapsed)
    \/ \E elapsed \in BOOLEAN : ClickNext(elapsed)

\* The user types in the search box of the paged list.
SearchingPages == \E t \in SearchTerms, elapsed \in BOOLEAN : TypeSearch(t, elapsed)

\* The user creates and deletes users.
WritingPages ==
    \/ CreateOnPage
    \/ \E name \in Names : DeleteOnPage(name)

\* Reads and writes of the paged list settle.
PagesSettle ==
    \/ \E k \in PageKeys : PageFetchSuccess(k)
    \/ \E kind \in {"create", "delete"} : PageWriteSuccess(kind)
    \/ \E kind \in {"create", "delete"} : HandlerCatches(kind)

NextPages == Paging \/ SearchingPages \/ WritingPages \/ PagesSettle

SpecPages == InitPages /\ [][NextPages]_vars

\* ------------------------------------------------- two uses of a read hook
\* A use of a read hook: the Resource Client operation it is for and the
\* arguments the component gives it.
KeyOfUse(u) ==
    CASE u.op = "getUsers" -> useUsers(u.args[1]).queryKey
      [] u.op = "getUserById" -> useUser(u.args[1]).queryKey
      [] u.op = "searchUsers" -> useSearchUsers(u.args[1], u.args[2], u.args[3]).queryKey
      [] u.op = "getUsersByRole" -> useUsersByRole(u.args[1], u.args[2], u.args[3]).queryKey
      [] u.op = "getActiveUsers" -> useActiveUsers(u.args[1], u.args[2]).queryKey

\* The queryFn of the hook: the operation's call of makeRequest.
CallOfUse(u) ==
    CASE u.op = "getUsers" -> getUsers(u.args[1])
      [] u.op = "getUserById" -> getUserById(u.args[1])
      [] u.op = "searchUsers" -> searchUsers(u.args[1], u.args[2], u.args[3])
      [] u.op = "getUsersByRole" -> getUsersByRole(u.args[1], u.args[2], u.args[3])
      [] u.op = "getActiveUsers" -> getActiveUsers(u.args[1], u.args[2])

RequestOfUse(u) == BuildRequest(CallOfUse(u).path, CallOfUse(u).options)

\* The arguments the model's components give.
OptPageNumbers == {Undefined, Some(0), Some(1), Some(2)}
OptPageSizes == {Undefined, Some(10)}
OptSearchTerms == {Undefined, Some("B")}
ParamLiterals ==
    {<<>>}
        \cup {<<<<"PageNumber", n>>>> : n \in OptPageNumbers \ {Some(0)}}
        \cup {<<<<"SearchTerm", t>>>> : t \in OptSearchTerms}
        \cup {<<<<"PageNumber", n>>, <<"SearchTerm", t>>>> :
                 n \in OptPageNumbers \ {Some(0)}, t \in OptSearchTerms}
        \cup {<<<<"SearchTerm", t>>, <<"PageNumber", n>>>> :
                 n \in OptPageNumbers \ {Some(0)}, t \in OptSearchTerms}

\* The uses whose parameter objects, if any, have identity ref.
Uses(ref) ==
    {[op |-> "getUsers", args |-> <<Undefined>>]}
        \cup {[op |-> "getUsers", args |-> <<Some(Obj(ref, es))>>] : es \in ParamLiterals}
        \cup {[op |-> "getUsers",
               args |-> <<Some(Obj(ref, UsersParams(InitialPage, PageSize, t)))>>] :
                 t \in SearchTerms}
        \cup {[op |-> "getUserById", args |-> <<id>>] : id \in Ids}
        \cup {[op |-> "searchUsers", args |-> <<t, n, z>>] :
                 t \in {"B", "a b"}, n \in OptPageNumbers, z \in OptPageSizes}
        \cup {[op |-> "getUsersByRole", args |-> <<r, n, z>>] :
                 r \in {"r1"}, n \in OptPageNumbers, z \in OptPageSizes}
        \cup {[op |-> "getActiveUsers", args |-> <<n, z>>] :
                 n \in OptPageNumbers, z \in OptPageSizes}

\* Two components render with uses a and b: each gets the query its key
\* hashes to, and its queryFn would issue its request.
RenderTwice(a, b) ==
    /\ uses = Undefined
    /\ uses' = Some([a |-> a, b |-> b,
                     hashA |-> hashKey(KeyOfUse(a)), hashB |-> hashKey(KeyOfUse(b)),
                     requestA |-> RequestOfUse(a), requestB |-> RequestOfUse(b)])
    /\ UNCHANGED <<uiVars, queryVars, call, request, response, outcome, consoleErrors, pc, caught>>

NextKeys == \E a \in Uses(1), b \in Uses(2) : RenderTwice(a, b)

SpecKeys == Init /\ [][NextKeys]_vars


\* ------------------------------------------------- one call of the Gateway
\* What fetch can settle with.
Statuses == {200, 299, 300, 404, 500}
ContentTypes ==
    {Undefined, Some(<<"application/json">>),
     Some(<<"application/json", "; charset=utf-8">>), Some(<<"text/plain">>)}
\* Two pages of users as the backend may write them: page 1 of 11 users
\* with 10 rows and 2 pages, and one with 11 rows and 1 page.
PageBody ==
    "{\"data\":[10 users],\"totalCount\":11,\"pageNumber\":1,\"pageSize\":10,\"totalPages\":2}"
LongPageBody ==
    "{\"data\":[11 users],\"totalCount\":11,\"pageNumber\":1,\"pageSize\":10,\"totalPages\":1}"
Bodies == {"{\"id\":\"1\"}", "<html>", PageBody, LongPageBody}
Responses == [status : Statuses, contentType : ContentTypes, body : Bodies]

\* response.ok
Ok(r) == 200 <= r.status /\ r.status <= 299

\* Faulty variant of IsJson: a response without a content-type is decoded.
IsJsonOrMissing(contentType) ==
    contentType = Undefined \/ Contains(contentType[1], "application/json")

\* contentType && contentType.includes('application/json')
IsJson(contentType) ==
    contentType # Undefined /\ Contains(contentType[1], "application/json")

\* JSON.parse on the bodies of the model: the value, or none (SyntaxError).
\* length stands for the array data by its number of users.
JsonParse(body) ==
    CASE body = "{\"id\":\"1\"}" -> Some([id |-> "1"])
      [] body = PageBody ->
           Some([length |-> 10, totalCount |-> 11, pageNumber |-> 1, pageSize |-> 10,
                 totalPages |-> 2])
      [] body = LongPageBody ->
           Some([length |-> 11, totalCount |-> 11, pageNumber |-> 1, pageSize |-> 10,
                 totalPages |-> 1])
      [] OTHER -> Undefined

HttpError(status) ==
    [name |-> "Error", message |-> <<"HTTP error! status: ", NumStr(status)>>]
NetworkFailure == [name |-> "TypeError", message |-> <<"Failed to fetch">>]
JsonSyntaxError == [name |-> "SyntaxError", message |-> <<"Unexpected token">>]

Returned(value) == Some([kind |-> "returned", value |-> value])
Thrown(error) == Some([kind |-> "thrown", value |-> error])

\* The form the Users view submits to createUser: every field is a string
\* of the form's state, phone '' until the user types one.
CreateForm(phone) ==
    <<<<"email", Some("b@x.io")>>, <<"name", Some("B")>>,
      <<"phone", Some(phone)>>, <<"password", Some("pw")>>>>
\* editForm, as startEdit fills it and the user changes it.
EditForm(phone, status) ==
    <<<<"email", Some("b@x.io")>>, <<"name", Some("B")>>,
      <<"phone", Some(phone)>>, <<"status", Some(status)>>>>
PhoneInputs == {"", "555"}

\* A CreateUserRequest written without a phone.
CreateRequestWithoutPhone ==
    <<<<"email", Some("b@x.io")>>, <<"name", Some("B")>>, <<"password", Some("pw")>>>>

Called(op, args, made) ==
    [op |-> op, args |-> args, path |-> made.path, options |-> made.options]

\* The calls the model makes: the reads, the writes of the Users view, a
\* createUser without a phone, and makeRequest called by a subclass with
\* any method, with and without data.
Methods == {"GET", "POST", "PUT", "DELETE", "PATCH"}
Calls ==
    {Called(u.op, u.args, CallOfUse(u)) : u \in Uses(1)}
        \cup {Called("createUser", <<d>>, createUser(d)) :
                 d \in {CreateForm(ph) : ph \in PhoneInputs} \cup {CreateRequestWithoutPhone}}
        \cup {Called("updateUser", <<"1", EditForm(ph, st)>>, updateUser("1", EditForm(ph, st))) :
                 ph \in PhoneInputs, st \in FormStatus}
        \cup {Called("deleteUser", <<"1">>, deleteUser("1"))}
        \cup {Called("updateUserStatus", <<"1", st>>, updateUserStatus("1", st)) :
                 st \in FormStatus}
        \cup {Called("makeRequest", <<>>,
                     [path |-> BasePath,
                      options |-> [method |-> m, data |-> d, params |-> Undefined]]) :
                 m \in {Undefined} \cup {Some(x) : x \in Methods},
                 d \in {Undefined, Some(<<<<"name", Some("B")>>>>)}}

\* makeRequest is called and runs to `await fetch(url, requestConfig)`.
Invoke(c) ==
    /\ pc = "idle"
    /\ call' = Some(c)
    /\ request' = Some(BuildRequest(c.path, c.options))
    /\ pc' = "fetch"
    /\ UNCHANGED <<uiVars, queryVars, response, outcome, consoleErrors, caught, uses>>

\* fetch rejects: the transport could not complete.
FetchRejects ==
    /\ pc = "fetch"
    /\ caught' = Some(NetworkFailure)
    /\ pc' = "catch"
    /\ UNCHANGED <<uiVars, queryVars, call, request, response, outcome, consoleErrors, uses>>

\* Faulty variant of FetchResolves: response.ok is not looked at.
FetchResolvesUnchecked(r) ==
    /\ pc = "fetch"
    /\ response' = Some(r)
    /\ caught' = caught
    /\ pc' = IF IsJson(r.contentType) THEN "json" ELSE "text"
    /\ UNCHANGED <<uiVars, queryVars, call, request, outcome, consoleErrors, uses>>

\* fetch resolves with response r: makeRequest runs on to the throw of the
\* HTTP error, or to `await response.json()` / `await response.text()`.
FetchResolves(r) ==
    /\ pc = "fetch"
    /\ response' = Some(r)
    /\ IF ~Ok(r)
           THEN caught' = Some(HttpError(r.status)) /\ pc' = "catch"
           ELSE /\ caught' = caught
                /\ pc' = IF IsJson(r.contentType) THEN "json" ELSE "text"
    /\ UNCHANGED <<uiVars, queryVars, call, request, outcome, consoleErrors, uses>>

\* response.json() settles: the decoded value is returned, or the
\* SyntaxError is thrown into the catch block.
JsonSettles ==
    /\ pc = "json"
    /\ IF JsonParse(response[1].body) # Undefined
           THEN /\ outcome' = Returned(<<"json", JsonParse(response[1].body)[1]>>)
                /\ pc' = "done"
                /\ caught' = caught
           ELSE /\ caught' = Some(JsonSyntaxError)
                /\ pc' = "catch"
                /\ outcome' = outcome
    /\ UNCHANGED <<uiVars, queryVars, call, request, response, consoleErrors, uses>>

\* response.text() settles: the raw text is returned.
TextSettles ==
    /\ pc = "text"
    /\ outcome' = Returned(<<"text", response[1].body>>)
    /\ pc' = "done"
    /\ UNCHANGED <<uiVars, queryVars, call, request, response, consoleErrors, caught, uses>>

\* The body cannot be read to its end: json() or text() rejects.
BodyReadFails ==
    /\ pc \in {"json", "text"}
    /\ caught' = Some(NetworkFailure)
    /\ pc' = "catch"
    /\ UNCHANGED <<uiVars, queryVars, call, request, response, outcome, consoleErrors, uses>>

\* catch (error): console.error('API request failed:', error) ...
Catch ==
    /\ pc = "catch"
    /\ consoleErrors' = Append(consoleErrors,
                               [label |-> "API request failed:", error |-> caught[1]])
    /\ pc' = "rethrow"
    /\ UNCHANGED <<uiVars, queryVars, call, request, response, outcome, caught, uses>>

\* Faulty variant of Rethrow: the catch block ends without `throw error`,
\* so makeRequest resolves with undefined.
RethrowSwallowed ==
    /\ pc = "rethrow"
    /\ outcome' = Returned(<<"undefined", "undefined">>)
    /\ pc' = "done"
    /\ UNCHANGED <<uiVars, queryVars, call, request, response, consoleErrors, caught, uses>>

\* ... throw error: the promise of makeRequest rejects.
Rethrow ==
    /\ pc = "rethrow"
    /\ outcome' = Thrown(caught[1])
    /\ pc' = "done"
    /\ UNCHANGED <<uiVars, queryVars, call, request, response, consoleErrors, caught, uses>>

NextGateway ==
    \/ \E c \in Calls : Invoke(c)
    \/ FetchRejects
    \/ \E r \in Responses : FetchResolves(r)
    \/ JsonSettles
    \/ TextSettles
    \/ BodyReadFails
    \/ Catch
    \/ Rethrow

SpecGateway == Init /\ [][NextGateway]_vars


\* ------------------------------------------------------------ the sign-in
\* What the sign-in form posts to authorize: each field a string or absent.
CredentialInputs ==
    [username : {Undefined, Some(""), Some("u")},
     password : {Undefined, Some(""), Some("p")}]

\* BASE_URL: the API URL of the environment, or none.
BaseUrls == {Undefined, Some("https://api")}

\* What the login endpoint can answer with.
LoginStatuses == {200, 201, 401, 404, 429, 503, 500}
LoginBodies ==
    {"null", "{}", "{\"token\":\"t\"}",
     "{\"token\":\"t\",\"user\":{\"username\":\"u\"}}",
     "{\"message\":\"locked\"}", "<html>"}
LoginResponses == [status : LoginStatuses, body : LoginBodies]

\* A parsed JSON value of the model: null, or an object by its properties.
JsNull == [null |-> TRUE, props |-> <<>>]
JsObject(props) == [null |-> FALSE, props |-> props]

\* res.json() on the bodies of the model: the value, or none (SyntaxError).
LoginJson(body) ==
    CASE body = "null" -> Some(JsNull)
      [] body = "{}" -> Some(JsObject(<<>>))
      [] body = "{\"token\":\"t\"}" -> Some(JsObject(<<<<"token", Some("t")>>>>))
      [] body = "{\"token\":\"t\",\"user\":{\"username\":\"u\"}}" ->
           Some(JsObject(<<<<"token", Some("t")>>,
                           <<"user", Some(<<<<"username", Some("u")>>>>)>>>>))
      [] body = "{\"message\":\"locked\"}" -> Some(JsObject(<<<<"message", Some("locked")>>>>))
      [] OTHER -> Undefined

\* new AuthError(message, statusCode = 400)
AuthError(message, statusCode) ==
    [name |-> "AuthError", message |-> message, statusCode |-> statusCode]
OtherError(name) == [name |-> name, message |-> <<>>, statusCode |-> 0]

\* authorize from `if (res.ok && data)` to its end, for the status and the
\* parsed body of the response.
AfterJson(status, data) ==
    LET ok == 200 <= status /\ status <= 299
    IN  IF ok /\ ~data.null
            THEN Returned(data.props)
        ELSE IF ~ok
            THEN CASE status = 401 -> Thrown(AuthError(<<"Invalid credentials">>, 400))
                   [] status = 404 -> Thrown(AuthError(<<"User not found">>, 400))
                   [] status = 429 ->
                        Thrown(AuthError(
                            <<"Too many login attempts. Please try again later">>, 400))
                   [] status = 503 ->
                        Thrown(AuthError(
                            <<"Authentication service is temporarily unavailable">>, 503))
                   [] OTHER ->
                        IF data.null
                            THEN Thrown(OtherError("TypeError"))
                            ELSE Thrown(AuthError(
                                     <<"Authentication failed: ",
                                       IF Get(data.props, "message") # Undefined
                                           THEN Get(data.props, "message")[1]
                                           ELSE "Unknown error">>, status))
        ELSE Thrown(AuthError(<<"Invalid response from authentication server">>, 400))

\* authorize is called and runs to `await fetch(...)`, or throws before.
Authorize(c, baseUrl) ==
    /\ authPc = "idle"
    /\ credentials' = Some(c)
    /\ res' = Undefined
    /\ IF c.username \in {Undefined, Some("")} \/ c.password \in {Undefined, Some("")}
           THEN /\ authorized' = Thrown(AuthError(<<"Username and password are required">>, 400))
                /\ authPc' = "settled"
       ELSE IF baseUrl = Undefined
           THEN /\ authorized' = Thrown(AuthError(<<"API URL configuration is missing">>, 500))
                /\ authPc' = "settled"
       ELSE /\ authorized' = Undefined
            /\ authPc' = "fetch"
    /\ UNCHANGED <<queryVars, serviceVars, loginVars, formVars, pagingVars, session>>

\* fetch rejects: authorize rejects with fetch's error.
LoginFetchRejects ==
    /\ authPc = "fetch"
    /\ authorized' = Thrown(OtherError("TypeError"))
    /\ authPc' = "settled"
    /\ UNCHANGED <<queryVars, serviceVars, loginVars, formVars, pagingVars,
                   session, credentials, res>>

\* fetch resolves with response r: authorize runs to `await res.json()`.
LoginFetchResolves(r) ==
    /\ authPc = "fetch"
    /\ res' = Some(r)
    /\ authPc' = "json"
    /\ UNCHANGED <<queryVars, serviceVars, loginVars, formVars, pagingVars,
                   session, credentials, authorized>>

\* res.json() settles and authorize runs to its end.
LoginJsonSettles ==
    /\ authPc = "json"
    /\ authorized' = IF LoginJson(res[1].body) = Undefined
                         THEN Thrown(OtherError("SyntaxError"))
                         ELSE AfterJson(res[1].status, LoginJson(res[1].body)[1])
    /\ authPc' = "settled"
    /\ UNCHANGED <<queryVars, serviceVars, loginVars, formVars, pagingVars,
                   session, credentials, res>>

\* callbacks.jwt with the user authorize returned: the token's fields.
Jwt(user) ==
    [accessToken |-> Get(user, "token"),
     user |-> IF Get(user, "user") # Undefined THEN Get(user, "user") ELSE Some(user)]

\* callbacks.session: the session made of the token.
SessionOf(token) == [accessToken |-> token.accessToken, user |-> token.user]

\* authorize returned a user: the token is written and the session made
\* of it is the one the session provider holds.
SignInSucceeds ==
    /\ authPc = "settled"
    /\ authorized[1].kind = "returned"
    /\ session' = Some(SessionOf(Jwt(authorized[1].value)))
    /\ authPc' = "idle"
    /\ UNCHANGED <<queryVars, serviceVars, loginVars, formVars, pagingVars,
                   credentials, res, authorized>>

\* authorize threw: the sign-in fails and no session is made.
SignInFails ==
    /\ authPc = "settled"
    /\ authorized[1].kind = "thrown"
    /\ authPc' = "idle"
    /\ UNCHANGED <<queryVars, serviceVars, loginVars, formVars, pagingVars,
                   session, credentials, res, authorized>>

\* signOut(): the session is gone.
SignOut ==
    /\ authPc = "idle"
    /\ session # Undefined
    /\ session' = Undefined
    /\ UNCHANGED <<queryVars, serviceVars, loginVars, formVars, pagingVars,
                   credentials, res, authorized, authPc>>

\* useAuth: isAuthenticated: !!session?.user
isAuthenticated == session # Undefined /\ session[1].user # Undefined

NextAuth ==
    \/ \E c \in CredentialInputs, baseUrl \in BaseUrls : Authorize(c, baseUrl)
    \/ LoginFetchRejects
    \/ \E r \in LoginResponses : LoginFetchResolves(r)
    \/ LoginJsonSettles
    \/ SignInSucceeds
    \/ SignInFails
    \/ SignOut

SpecAuth == Init /\ [][NextAuth]_vars

\* ----------------------------------------------------------------- claims
\* Pending mutation m settles in this step and its onSuccess runs: a pending
\* mutation settles by MutationSuccess or by MutationError, and by nothing
\* else (SettlesBySuccess).
Succeeds(m) == IsPending(m) /\ mut'[m] = <<>> /\ ~MutationError(m)

SettlesBySuccess == [][\A m \in MutKinds : Succeeds(m) => MutationSuccess(m)]_vars

UserOf(q) == CHOOSE u \in q.data[1] : TRUE

\* C1: starting a status update on a user whose single-user query holds
\* another status leaves that query showing the new status at once, before
\* the call has resolved.
C1_StatusShownAtOnce ==
    [][\A i \in Ids, s \in FormStatus :
          (/\ StartStatus(i, s)
           /\ cache[QK_user(i)].data # NoData
           /\ UserOf(cache[QK_user(i)]).status # s)
          => (/\ cache'[QK_user(i)].data # NoData
              /\ UserOf(cache'[QK_user(i)]).status = s)]_vars

\* C2: when the call of an update or status update on id fails, the
\* single-user query of id holds, once the failure is handled, what it held
\* when the mutation began.
C2_FailureRestoresSnapshot ==
    [][\A m \in {"update", "status"} :
          MutationError(m) => cache'[QK_user(mut[m][1].id)].data = mut[m][1].prev]_vars


\* C3: the single-user query of id only ever takes a value the backend
\* returned for it; after a successful update or status update it is never
\* given a value the client computed.
C3_ServerAuthoritative ==
    [][\A i \in Ids :
          LET k == QK_user(i)
          IN  (cache'[k].data # cache[k].data /\ cache'[k].data # NoData)
                  => (/\ CanRespond(k, server')
                      /\ cache'[k].data = Some(Respond(k, server')))]_vars

\* A successful status update has been reconciled: the query of user "1"
\* holds the backend's record again, with the new status.
C3_Witness ==
    /\ server["1"] # NoUser
    /\ server["1"].status = "inactive"
    /\ cache[QK_user("1")].data = Some({server["1"]})
    /\ ~cache[QK_user("1")].isInvalidated

\* C4: no two mutations that touch the single-user query of one identifier
\* are outstanding together.
C4_OneMutationPerId ==
    ~(/\ IsPending("update")
      /\ IsPending("status")
      /\ mut["update"][1].id = mut["status"][1].id)

\* C5: at every instant at most one Resource Client call per key is
\* outstanding, whether the cache still awaits its result or not.
C5_OneCallPerKey == \A k \in Keys : inflight[k] + abandoned[k] <= 1

\* What the code does keep: the cache awaits at most one call per key, and
\* readers that request a key whose fetch is running start no call.
OneAwaitedCallPerKey ==
    \A k \in Keys :
        /\ inflight[k] <= 1
        /\ inflight[k] = 1 <=> cache[k].fetchStatus = "fetching"

PagedKeys == {r.queryKey : r \in ViewReads}

\* C6: after a successful create, update, delete or status update every
\* paged list query in the cache is stale.
C6_ListsStaleAfterWrite ==
    [][\A m \in MutKinds :
          Succeeds(m)
              => \A k \in PagedKeys : Exists(cache[k]) => IsStale(cache'[k])]_vars

\* Both paged lists (with and without a search term) hold data that a
\* write has made stale.
C6_Witness ==
    \A k \in PagedKeys : cache[k].data # NoData /\ cache[k].isInvalidated

\* C7: after a successful update or status update on id the single-user
\* query of id, if it is in the cache, is stale.
C7_DetailStaleAfterWrite ==
    [][\A m \in {"update", "status"} :
          Succeeds(m)
              => LET k == QK_user(mut[m][1].id)
                 IN  Exists(cache[k]) => IsStale(cache'[k])]_vars

\* The query of user "1" holds data that a write has made stale.
C7_Witness ==
    /\ cache[QK_user("1")].data # NoData
    /\ cache[QK_user("1")].isInvalidated

\* C8: a write's invalidation deletes no stored value: a query that was
\* fresh with a value is stale with that value afterwards, and a stored
\* value changes only when a fetch succeeds or the query is collected.
C8_InvalidationKeepsValue ==
    [][/\ \A m \in MutKinds :
             Succeeds(m)
                 => \A k \in Keys :
                        /\ cache'[k].data = cache[k].data
                        /\ (cache[k].data # NoData /\ MatchesKey(QK_users, k))
                               => IsStale(cache'[k])
       /\ \A k \in Keys :
             (cache[k].data # NoData /\ cache'[k].data # cache[k].data)
                 => (FetchSuccess(k) \/ Evict(k))]_vars

\* A list nobody observes keeps its value, stale, after a write.
C8_Witness ==
    \E k \in PagedKeys :
        /\ cache[k].data # NoData
        /\ cache[k].isInvalidated
        /\ cache[k].observers = 0
        /\ cache[k].fetchStatus = "idle"

\* C9: a failed read stores nothing: the query keeps the value it held, or
\* none, and shows the error.
C9_FailedReadKeepsCache ==
    [][\A k \in Keys :
          FetchFail(k)
              => (/\ cache'[k].data = cache[k].data
                  /\ cache'[k].status = "error")]_vars

\* A refetch of user "1" has failed and the old value is still held.
C9_Witness ==
    /\ cache[QK_user("1")].status = "error"
    /\ cache[QK_user("1")].data # NoData

EmptyKeys == {r.queryKey : r \in EmptyReads}

\* C10: a read hook given an empty identifier, search term or role id never
\* issues a call and never shows an error.
C10_EmptyNeverIssued ==
    \A k \in EmptyKeys :
        /\ inflight[k] = 0
        /\ abandoned[k] = 0
        /\ cache[k].fetchStatus = "idle"
        /\ cache[k].status # "error"
        /\ cache[k].data = NoData

\* A component with useUser("") is on screen and a write has invalidated
\* its query.
C10_Witness ==
    /\ cache[QK_user("")].observers > 0
    /\ cache[QK_user("")].isInvalidated

\* The two uses are of one operation and their arguments have equal values:
\* every property read from one parameter object gives what it gives read
\* from the other.
SameArguments(a, b) ==
    /\ a.op = b.op
    /\ IF a.op = "getUsers"
           THEN /\ (a.args[1] = Undefined) = (b.args[1] = Undefined)
                /\ a.args[1] # Undefined =>
                      \A i \in 1..Len(SortedNames) :
                          Get(a.args[1][1].entries, SortedNames[i])
                              = Get(b.args[1][1].entries, SortedNames[i])
           ELSE a.args = b.args

\* C11: two uses of one operation whose parameters have equal field values,
\* in objects of distinct identity, get equal keys: they share a query.
C11_EqualParamsShareKey ==
    uses # Undefined =>
        (SameArguments(uses[1].a, uses[1].b) => uses[1].hashA = uses[1].hashB)

\* Two parameter objects of distinct identity, written in different order,
\* with the same values, and a property that holds a value.
C11_Witness ==
    /\ uses # Undefined
    /\ uses[1].a.op = "getUsers"
    /\ uses[1].a.args[1] # Undefined
    /\ SameArguments(uses[1].a, uses[1].b)
    /\ uses[1].a.args[1][1].ref # uses[1].b.args[1][1].ref
    /\ uses[1].a.args[1][1].entries # uses[1].b.args[1][1].entries
    /\ Get(uses[1].a.args[1][1].entries, "SearchTerm") # Undefined
    /\ uses[1].hashA = uses[1].hashB

\* C12: two reads whose HTTP requests differ never share a key.
C12_DifferentRequestsDifferentKeys ==
    uses # Undefined =>
        (uses[1].requestA # uses[1].requestB => uses[1].hashA # uses[1].hashB)

JsonContentTypes ==
    {Some(<<"application/json">>), Some(<<"application/json", "; charset=utf-8">>)}

\* C14: a failed makeRequest (fetch rejected, status outside 200..299, a
\* JSON body that does not parse, a body that cannot be read) never settles
\* by returning, and the error it throws has been given to console.error.
C14_FailuresLoggedAndThrown ==
    /\ (outcome # Undefined /\ outcome[1].kind = "thrown")
          => \E i \in 1..Len(consoleErrors) : consoleErrors[i].error = outcome[1].value
    /\ pc = "done"
          => ((\/ response = Undefined
               \/ response[1].status < 200
               \/ response[1].status > 299
               \/ (response[1].contentType \in JsonContentTypes
                       /\ JsonParse(response[1].body) = Undefined)
               \/ caught # Undefined)
                 => outcome[1].kind = "thrown")

\* A 200 with a JSON content-type and a body that does not parse has been
\* logged and thrown.
C14_Witness ==
    /\ pc = "done"
    /\ response # Undefined
    /\ response[1].status = 200
    /\ response[1].contentType \in JsonContentTypes
    /\ outcome = Thrown(JsonSyntaxError)
    /\ consoleErrors = <<[label |-> "API request failed:", error |-> JsonSyntaxError]>>

\* C15: the request handed to fetch has a body only if its method is POST,
\* PUT or PATCH.
C15_BodyOnlyForBodyMethods ==
    (request # Undefined /\ request[1].body # Undefined)
        => request[1].method \in {"POST", "PUT", "PATCH"}

\* makeRequest was given data with DELETE and issued no body.
C15_Witness ==
    /\ call # Undefined
    /\ call[1].options.method = Some("DELETE")
    /\ call[1].options.data # Undefined
    /\ request[1].method = "DELETE"
    /\ request[1].body = Undefined

\* C16: a query parameter that is undefined in the params mapping does not
\* appear in the URL.
C16_AbsentParamsOmitted ==
    (request # Undefined /\ call[1].options.params # Undefined)
        => \A i \in 1..Len(call[1].options.params[1]) :
              call[1].options.params[1][i][2] = Undefined
                  => ~Contains(request[1].url, call[1].options.params[1][i][1])

Transmitted(x, default) == IF x = Undefined THEN default ELSE NumStr(x[1])

\* C18: searchUsers, getUsersByRole and getActiveUsers transmit an omitted
\* page number as pageNumber=1, an omitted page size as pageSize=10, and a
\* supplied value as it is.
C18_PageDefaults ==
    (request # Undefined
        /\ call[1].op \in {"searchUsers", "getUsersByRole", "getActiveUsers"})
        => LET args == call[1].args
               n == Len(args)
           IN  request[1].url =
                   BaseUrl \o call[1].path \o <<"?">>
                       \o (IF call[1].op = "searchUsers"
                               THEN <<"searchTerm", "=", FormEncode(args[1]), "&">>
                               ELSE <<>>)
                       \o <<"pageNumber", "=", Transmitted(args[n - 1], "1"), "&",
                            "pageSize", "=", Transmitted(args[n], "10")>>

\* getUsersByRole("r1") requests /api/users/role/r1?pageNumber=1&pageSize=10.
C18_Witness ==
    /\ call # Undefined
    /\ call[1].op = "getUsersByRole"
    /\ call[1].args = <<"r1", Undefined, Undefined>>
    /\ request[1].url =
           <<"http://localhost:3000", "/api/users", "/", "role", "/", "r1",
             "?", "pageNumber", "=", "1", "&", "pageSize", "=", "10">>

\* The URL has the query parameter name=value.
HasParam(url, name, value) ==
    \E i \in 1..(Len(url) - 2) : url[i] = name /\ url[i + 1] = "=" /\ url[i + 2] = value

\* C19: getUsers called without params, or with params that lack the page
\* number or the page size, transmits PageNumber=1 and PageSize=10.
C19_ListDefaults ==
    (request # Undefined /\ call[1].op = "getUsers")
        => LET supplied(name) ==
                   /\ call[1].args[1] # Undefined
                   /\ Get(call[1].args[1][1].entries, name) # Undefined
           IN  /\ ~supplied("PageNumber") => HasParam(request[1].url, "PageNumber", "1")
               /\ ~supplied("PageSize") => HasParam(request[1].url, "PageSize", "10")

\* C20: the body of a create request never holds an empty string or null
\* for a field, and holds no phone when none was supplied.
C20_NoEmptyOptionalField ==
    (request # Undefined /\ call[1].op = "createUser")
        => LET body == request[1].body[1]
               phone == Get(call[1].args[1], "phone")
           IN  /\ ~\E i \in 1..(Len(body) - 2) :
                      /\ body[i] = ":"
                      /\ \/ body[i + 1] = "null"
                         \/ body[i + 1] = "\"" /\ body[i + 2] = ""
               /\ (phone = Undefined \/ phone = Some("")) => ~Contains(body, "phone")

\* The names of the query parameters of a URL.
ParamNames(url) == {url[i] : i \in {j \in 1..(Len(url) - 1) : url[j + 1] = "="}}

\* The path of a URL: what follows the base URL, up to the query string.
PathOfUrl(url) ==
    LET last == IF Contains(url, "?")
                    THEN (CHOOSE i \in 1..Len(url) : url[i] = "?") - 1
                    ELSE Len(url)
    IN  SubSeq(url, 2, last)

\* The names the wire protocol gives the query parameters of the list read.
WireListNames ==
    {"pageNumber", "pageSize", "searchTerm", "sortBy", "sortDescending",
     "email", "name", "phone", "roleId", "status"}

\* The method and path the wire protocol gives each operation.
WireRoute(op, args) ==
    CASE op = "createUser" -> [method |-> "POST", path |-> <<"/api/users">>]
      [] op = "getUserById" -> [method |-> "GET", path |-> <<"/api/users", "/", args[1]>>]
      [] op = "getUsers" -> [method |-> "GET", path |-> <<"/api/users">>]
      [] op = "searchUsers" -> [method |-> "GET", path |-> <<"/api/users", "/", "search">>]
      [] op = "getUsersByRole" ->
           [method |-> "GET", path |-> <<"/api/users", "/", "role", "/", args[1]>>]
      [] op = "getActiveUsers" -> [method |-> "GET", path |-> <<"/api/users", "/", "active">>]
      [] op = "updateUser" -> [method |-> "PUT", path |-> <<"/api/users", "/", args[1]>>]
      [] op = "deleteUser" -> [method |-> "DELETE", path |-> <<"/api/users", "/", args[1]>>]
      [] op = "updateUserStatus" ->
           [method |-> "PATCH", path |-> <<"/api/users", "/", args[1], "/", "status">>]

\* C21: the request of every UserService operation has the method and the
\* path of the wire protocol; the list read names its query parameters as
\* the wire protocol does, and the status update's body is {status}.
C21_WireProtocol ==
    (request # Undefined /\ call[1].op # "makeRequest")
        => /\ request[1].method = WireRoute(call[1].op, call[1].args).method
           /\ PathOfUrl(request[1].url) = WireRoute(call[1].op, call[1].args).path
           /\ call[1].op = "getUsers" => ParamNames(request[1].url) \subseteq WireListNames
           /\ call[1].op = "updateUserStatus"
                 => request[1].body =
                        Some(<<"{", "\"", "status", "\"", ":", "\"", call[1].args[2], "\"", "}">>)

\* What holds of the code: every operation has the method and path of the
\* wire protocol, and the status update's body is {status}.
WireMethodAndPath ==
    (request # Undefined /\ call[1].op # "makeRequest")
        => /\ request[1].method = WireRoute(call[1].op, call[1].args).method
           /\ PathOfUrl(request[1].url) = WireRoute(call[1].op, call[1].args).path
           /\ call[1].op = "updateUserStatus"
                 => request[1].body =
                        Some(<<"{", "\"", "status", "\"", ":", "\"", call[1].args[2], "\"", "}">>)

\* C24: two reads that issue the identical HTTP request use the same key.
C24_SameRequestSameKey ==
    uses # Undefined =>
        (uses[1].requestA = uses[1].requestB => uses[1].hashA = uses[1].hashB)

\* C28: while a login call is running the submit button is disabled, and no
\* two login calls run together.
C28_OneLoginAtATime ==
    /\ logins # <<>> => SubmitDisabled
    /\ Len(logins) <= 1

\* C25: when a write succeeds, every query in the cache whose key begins
\* with 'users' is marked stale, whatever its parameters or identifier, and
\* the session's ['user'] query is left as it was.
C25_WholeFamilyStaleOnly ==
    [][\A m \in MutKinds :
          Succeeds(m)
              => /\ \A k \in Keys :
                       (Exists(cache[k]) /\ k[1] = "users")
                           => (cache'[k].isInvalidated /\ IsStale(cache'[k]))
                 /\ cache'[QK_session] = cache[QK_session]]_vars

\* A status update of user "1" has left the queries of user "2", of the
\* active users and of the view's list stale with their values, and the
\* session's user fresh.
C25_Witness ==
    /\ cache[QK_session].data = Some(SessionUser)
    /\ ~cache[QK_session].isInvalidated
    /\ \A k \in {QK_user("2"), QK_activeUsers(Undefined, Undefined), ViewKey("")} :
          cache[k].data # NoData /\ cache[k].isInvalidated
    /\ server["1"].status = "inactive"

\* The PUT request handleUpdateUser's mutation sends for user id with the
\* edit form as its data.
UpdateRequestOf(id, form) ==
    BuildRequest(updateUser(id, form).path, updateUser(id, form).options)

\* The status a JSON body carries, if it carries one.
StatusIn(body) ==
    IF \E i \in 1..(Len(body) - 4) : body[i] = "status" /\ body[i + 2] = ":"
        THEN Some(body[(CHOOSE i \in 1..(Len(body) - 4) :
                           body[i] = "status" /\ body[i + 2] = ":") + 4])
        ELSE Undefined

\* C22: a status change goes through the PATCH of the status mutation only:
\* the PUT of a submitted edit form carries no status other than the one
\* the user has, and a stored user's status changes only in a step in which
\* the status mutation on that user settles.
C22_StatusOnlyByPatch ==
    [][/\ (~IsPending("update") /\ IsPending("update")')
            => LET req == UpdateRequestOf(editingUser[1].id, editForm)
               IN  /\ req.method = "PUT"
                   /\ \A u \in Rows :
                         u.id = editingUser[1].id
                             => StatusIn(req.body[1]) \in {Undefined, Some(u.status)}
       /\ \A i \in Ids :
             (server[i] # NoUser /\ server'[i] # NoUser
                 /\ server'[i].status # server[i].status)
                 => (IsPending("status") /\ mut["status"][1].id = i /\ ~IsPending("status")')]_vars

\* Pending mutation kind settles in this step and the catch block of its
\* handler runs.
Rejects(kind) == IsPending(kind) /\ ~IsPending(kind)' /\ viewLog' # viewLog

\* Pending mutation kind settles in this step and its handler goes on after
\* its await.
Resolves(kind) == IsPending(kind) /\ ~IsPending(kind)' /\ viewLog' = viewLog

C30_FormKeptUntilSuccess ==
    [][/\ Rejects("create")
            => (createForm' = createForm /\ showCreateForm' = showCreateForm)
       /\ Rejects("update")
            => (editForm' = editForm /\ editingUser' = editingUser)
       /\ Resolves("create")
            => (createForm' = InitialCreateForm /\ ~showCreateForm')
       /\ Resolves("update")
            => (editForm' = InitialEditForm /\ editingUser' = Undefined)
       /\ (createForm # InitialCreateForm /\ createForm' = InitialCreateForm)
            => Resolves("create")
       /\ (editForm # InitialEditForm /\ editForm' = InitialEditForm)
            => Resolves("update")]_vars

\* A create has failed and the create form is still open with what the
\* user typed.
C30_Witness ==
    /\ viewLog # <<>>
    /\ viewLog[Len(viewLog)] = FailureLabel("create")
    /\ ~IsPending("create")
    /\ showCreateForm
    /\ \A name \in {"email", "name", "password"} : Get(createForm, name) # Some("")

\* C27: whenever the view shows list data, the page number is at least 1
\* and at most the number of pages of the list shown (a list with no users
\* counted as one page), under Previous and Next, edits of the search
\* term, creates and deletes.
C27_PageInRange ==
    ListShown
        => /\ 1 <= pageNumber
           /\ pageNumber <= (IF usersData.totalPages = 0 THEN 1 ELSE usersData.totalPages)

\* The operations that return a page of users.
ListOps == {"getUsers", "searchUsers", "getUsersByRole", "getActiveUsers"}

\* What holds of a PagedUserResponse the claim calls a paged collection.
IsConsistentPage(v) ==
    /\ DOMAIN v = {"length", "totalCount", "pageNumber", "pageSize", "totalPages"}
    /\ v.totalPages = Ceil(v.totalCount, v.pageSize)
    /\ v.length <= v.pageSize

\* C23: every value a list operation returns is a page of users whose
\* totalPages is totalCount / pageSize rounded up and whose data has at
\* most pageSize users.
C23_PagesConsistent ==
    (outcome # Undefined /\ outcome[1].kind = "returned" /\ call[1].op \in ListOps)
        => /\ outcome[1].value[1] = "json"
           /\ IsConsistentPage(outcome[1].value[2])

\* C29: authorize returns a user only when a username and a password were
\* given, the login response is 2xx and its body carries a token; an
\* authenticated session has an access token; and every other outcome of
\* authorize is an AuthError.
C29_AuthenticatedHasToken ==
    /\ (authorized # Undefined /\ authorized[1].kind = "returned")
          => /\ credentials[1].username \notin {Undefined, Some("")}
             /\ credentials[1].password \notin {Undefined, Some("")}
             /\ 200 <= res[1].status /\ res[1].status <= 299
             /\ Get(authorized[1].value, "token") # Undefined
    /\ isAuthenticated => session[1].accessToken # Undefined
    /\ (authorized # Undefined /\ authorized[1].kind = "thrown")
          => authorized[1].value.name = "AuthError"

=============================================================================
